---- MODULE Spec2Model ----
(***************************************************************************)
(* Queue Manager, Appointment Scheduler and profile / verification         *)
(* handlers of the hospital-management backend:                            *)
(* backend/src/controllers/queue.controller.js, appointment.controller.js  *)
(* (src/unnamed/part_004), the patient and doctor controllers              *)
(* (patient.controller.js) and admin.controller.js, with the route-level   *)
(* role gate verifyRole.  A handler is an operator from the stored state   *)
(* and the request to its outcome: the response it sends and the           *)
(* collection it leaves behind.  In the sequential specifications one      *)
(* action is one whole HTTP request (route middleware + handler); in the   *)
(* race specifications a handler is split at its awaited storage calls.    *)
(*                                                                         *)
(* Specifications: SpecQueue (queue router), SpecQueueClock (queue router  *)
(* with the wall clock advancing), SpecAppt (appointment router),          *)
(* SpecHospital (both routers together), SpecProfile (profile creation,    *)
(* update and verification), SpecBooking (booking while doctors are        *)
(* verified), SpecVerification (the writers of the verification fields),   *)
(* SpecBookRace, SpecJoinRace, SpecCompactRace (bookAppointment, joinQueue *)
(* and updateQueueStatus requests served concurrently).                    *)
(***************************************************************************)
EXTENDS Integers, Sequences, FiniteSets, TLC

\* ------------------------------------------------------------------ bounds
MaxEntries == 3      \* queue entries ever created
MaxAppts   == 2      \* appointments ever created
MaxNow     == 1      \* minutes the wall clock runs
MaxTimedEntries == 2 \* queue entries ever created while the clock runs
MaxDocs    == 2      \* queue entries + appointments ever created when the
                     \* Queue Manager and the Appointment Scheduler run together

\* ------------------------------------------------------- identities, roles
None == "none"       \* undefined / null / no document found

\* the accounts: patients, doctors, an admin and an account whose role is
\* none of the three
Users == {"up1", "up2", "up3", "ud1", "ud2", "ud3", "ua", "ux"}

Role == [u \in Users |->
            CASE u \in {"up1", "up2", "up3"} -> "patient"
              [] u \in {"ud1", "ud2", "ud3"} -> "doctor"
              [] u = "ua"                    -> "admin"
              [] OTHER                       -> "staff"]

\* req.user as the role middleware sees it: an account, or nothing
Callers == Users \cup {None}

PatientIds == {"P1", "P2"}
DoctorIds  == {"D1", "D2"}
\* doctorId values a request body can carry: existing ids, a well-formed id
\* of no document ("D9"), and a missing field (None)
DoctorIdInputs == DoctorIds \cup {"D9", None}

\* --------------------------------------------------------- string inputs
\* String.prototype.toLowerCase on the status strings a request can carry
ToLower(s) ==
    CASE s = "In-Progress" -> "in-progress"
      [] s = "COMPLETED"   -> "completed"
      [] s = "Completed"   -> "completed"
      [] s = "Confirmed"   -> "confirmed"
      [] OTHER             -> s

QueueStatusInputs == {"in-progress", "In-Progress", "completed", "COMPLETED",
                      "waiting", None}
ApptStatusInputs  == {"confirmed", "Confirmed", "completed", "Completed",
                      "cancelled", "pending", None}

\* new Date(date): the instant (days since the epoch, at 00:00 UTC) a date
\* string of a request body parses to
ParseDate(d) ==
    CASE d = "2025-01-10"               -> 20098
      [] d = "2025-01-10T00:00:00.000Z" -> 20098
      [] d = "2025-01-11"               -> 20099
      [] OTHER                          -> 0

Body(doctorId, date, startTime, endTime) ==
    [doctorId |-> doctorId, date |-> date, startTime |-> startTime,
     endTime |-> endTime]

\* request bodies of POST /appointments with all four fields: one slot, the
\* same slot with the date spelled differently, an overlapping range with
\* another startTime, another date, another doctor, and a well-formed id of
\* no doctor
CompleteBodies ==
    {Body("D1", "2025-01-10", "09:00", "09:30"),
     Body("D1", "2025-01-10T00:00:00.000Z", "09:00", "09:30"),
     Body("D1", "2025-01-10", "09:15", "09:45"),
     Body("D1", "2025-01-11", "09:00", "09:30"),
     Body("D2", "2025-01-10", "09:00", "09:30"),
     Body("D9", "2025-01-10", "09:00", "09:30")}

\* bodies with one field missing
IncompleteBodies ==
    {Body(None, "2025-01-10", "09:00", "09:30"),
     Body("D1", None, "09:00", "09:30"),
     Body("D1", "2025-01-10", None, "09:30"),
     Body("D1", "2025-01-10", "09:00", None)}

BookingInputs == CompleteBodies \cup IncompleteBodies

\* ------------------------------------------------------------------ state
VARIABLES
    patients,   \* Patient collection: set of [id, user, gender]
    doctors,    \* Doctor collection: set of [id, user, specialization,
                \* registrationNumber, proofDocument, isVerified,
                \* verificationStatus]
    queue,      \* Queue collection: sequence of entries, _id = index
    appts,      \* Appointment collection: sequence, _id = index
    now,        \* the server's wall clock (new Date()), in minutes
    inflight    \* the requests whose handler is between two awaits, with
                \* what the handler has read so far, per connection

vars == <<patients, doctors, queue, appts, now, inflight>>

\* two connections on which requests can be served concurrently
Slots == {"r1", "r2"}

\* no request on the connection
Idle == [op |-> "idle"]

\* Patient.findOne({ user: userId }) / Doctor.findOne({ user: userId })
PatientOf(u) ==
    IF \E p \in patients : p.user = u
    THEN (CHOOSE p \in patients : p.user = u).id
    ELSE None

DoctorOf(u) ==
    IF \E d \in doctors : d.user = u
    THEN (CHOOSE d \in doctors : d.user = u).id
    ELSE None

\* Doctor.findById(doctorId)
DoctorExists(doctorId) == \E d \in doctors : d.id = doctorId

\* verifyRole that lets an admin through whatever the allowed roles
verifyRoleAdminPasses(allowedRoles, u) ==
    IF u = None THEN 401
    ELSE IF Role[u] \notin allowedRoles \cup {"admin"} THEN 403
    ELSE 0

\* role.middleware verifyRole(allowedRoles): 0 = next(), else the status sent
verifyRole(allowedRoles, u) ==
    IF u = None THEN 401
    ELSE IF Role[u] \notin allowedRoles THEN 403
    ELSE 0

\* Patient.create({user, gender, ...}) and Doctor.create({user,
\* specialization, registrationNumber, proofDocument, isVerified: false,
\* verificationStatus: "pending"}) as documents
PatientDoc(id, user, gender) == [id |-> id, user |-> user, gender |-> gender]

DoctorDoc(id, user, specialization, registrationNumber, proofDocument) ==
    [id |-> id, user |-> user, specialization |-> specialization,
     registrationNumber |-> registrationNumber,
     proofDocument |-> proofDocument,
     isVerified |-> FALSE, verificationStatus |-> "pending"]

\* two patients and two doctors have created their profiles, and an admin has
\* approved the first doctor; the second is still pending
Init ==
    /\ patients = {PatientDoc("P1", "up1", "Male"),
                   PatientDoc("P2", "up2", "Female")}
    /\ doctors  = {[DoctorDoc("D1", "ud1", "cardiology", "R1", "url1")
                       EXCEPT !.isVerified = TRUE,
                              !.verificationStatus = "approved"],
                   DoctorDoc("D2", "ud2", "cardiology", "R2", "url2")}
    /\ queue = <<>>
    /\ appts = <<>>
    /\ now = 0
    /\ inflight = [r \in Slots |-> Idle]

\* ========================================================== Queue Manager
Min(S) == CHOOSE x \in S : \A y \in S : x <= y
Max(S) == CHOOSE x \in S : \A y \in S : x >= y

\* The outcome of a queue request: the HTTP status, the position the response
\* reports (0 if none), the _id of the entry it returns (0 if none) and the
\* Queue collection after the request.
QueueOutcome(code, info, id, q) ==
    [code |-> code, info |-> info, id |-> id, queue |-> q]

\* a thrown ApiError(code): nothing written
QueueError(code) == QueueOutcome(code, 0, 0, queue)

ActiveQueueStatuses == {"waiting", "in-progress"}

\* existingEntry with the filter status: "waiting" (in-progress forgotten)
existingEntryWaitingOnly(doctorId, patientId) ==
    LET m == {i \in 1..Len(queue) : /\ queue[i].doctor = doctorId
                                    /\ queue[i].patient = patientId
                                    /\ queue[i].status = "waiting"}
    IN IF m = {} THEN 0 ELSE Min(m)

\* Queue.findOne({doctor, patient, status: {$in: [waiting, in-progress]}}):
\* the _id of the first matching document in natural (insertion) order,
\* 0 for null
existingEntry(doctorId, patientId) ==
    LET m == {i \in 1..Len(queue) : /\ queue[i].doctor = doctorId
                                    /\ queue[i].patient = patientId
                                    /\ queue[i].status \in ActiveQueueStatuses}
    IN IF m = {} THEN 0 ELSE Min(m)

\* Queue.findOne({doctor, status: "waiting"}).sort({position: -1}), then
\* (lastEntry?.position || 0) + 1
nextPosition(doctorId) ==
    LET w == {queue[i].position : i \in {j \in 1..Len(queue) :
                  queue[j].doctor = doctorId /\ queue[j].status = "waiting"}}
    IN (IF w = {} THEN 0 ELSE Max(w)) + 1

\* const averageTimePerPatientMinutes = 15
averageTimePerPatientMinutes == 15

\* calculateEstimatedTime with delayMinutes = newPosition * 15
calculateEstimatedTimeFromZero(doctorId, newPosition) ==
    now + newPosition * averageTimePerPatientMinutes

\* calculateEstimatedTime: new Date() moved forward by
\* (newPosition - 1) * averageTimePerPatientMinutes minutes
calculateEstimatedTime(doctorId, newPosition) ==
    now + (newPosition - 1) * averageTimePerPatientMinutes

\* the joinQueue handler
joinQueue(u, doctorId) ==
    LET patientId == PatientOf(u)
        ex == existingEntry(doctorId, patientId)
        pos == nextPosition(doctorId)
    IN
    IF doctorId = None THEN QueueError(400)
    ELSE IF patientId = None THEN QueueError(404)
    ELSE IF ~DoctorExists(doctorId) THEN QueueError(404)
    ELSE IF ex # 0 THEN QueueOutcome(409, queue[ex].position, 0, queue)
    ELSE QueueOutcome(201, pos, Len(queue) + 1,
             Append(queue, [doctor |-> doctorId, patient |-> patientId,
                            position |-> pos,
                            estimatedTime |->
                                calculateEstimatedTime(doctorId, pos),
                            status |-> "waiting"]))

\* queueAuthorized without the comparison of the entry's doctor to the
\* caller's doctor profile
queueAuthorizedAnyDoctor(u, e) ==
    \/ Role[u] = "admin"
    \/ Role[u] = "doctor"

\* the ownership check of updateQueueStatus
queueAuthorized(u, e) ==
    \/ Role[u] = "admin"
    \/ /\ Role[u] = "doctor"
       /\ DoctorOf(u) # None
       /\ e.doctor = DoctorOf(u)

\* setStatusAndCompact whose updateMany filter omits `doctor`
setStatusAndCompactAnyDoctor(q, entryId, newStatus) ==
    LET k == q[entryId].position
        q1 == [q EXCEPT ![entryId].status = newStatus]
    IN IF newStatus = "completed"
       THEN [i \in 1..Len(q1) |->
                IF q1[i].status = "waiting" /\ q1[i].position > k
                THEN [q1[i] EXCEPT !.position = @ - 1]
                ELSE q1[i]]
       ELSE q1

\* Queue.findByIdAndUpdate(entryId, {$set: {status}}) followed, for
\* `completed`, by Queue.updateMany({doctor, status: waiting,
\* position: {$gt: k}}, {$inc: {position: -1}})
\* setStatusAndCompact that also moves the estimatedTime of each decremented
\* entry one consultation earlier
setStatusAndCompactMovesEstimate(q, entryId, newStatus) ==
    LET k == q[entryId].position
        d == q[entryId].doctor
        q1 == [q EXCEPT ![entryId].status = newStatus]
    IN IF newStatus = "completed"
       THEN [i \in 1..Len(q1) |->
                IF q1[i].doctor = d /\ q1[i].status = "waiting"
                   /\ q1[i].position > k
                THEN [q1[i] EXCEPT !.position = @ - 1,
                                   !.estimatedTime =
                                       @ - averageTimePerPatientMinutes]
                ELSE q1[i]]
       ELSE q1

\* setStatusAndCompact whose compaction filter is position >= the entry's
\* position ($gte for $gt)
setStatusAndCompactFromEqual(q, entryId, newStatus) ==
    LET k == q[entryId].position
        d == q[entryId].doctor
        q1 == [q EXCEPT ![entryId].status = newStatus]
    IN IF newStatus = "completed"
       THEN [i \in 1..Len(q1) |->
                IF q1[i].doctor = d /\ q1[i].status = "waiting"
                   /\ q1[i].position >= k
                THEN [q1[i] EXCEPT !.position = @ - 1]
                ELSE q1[i]]
       ELSE q1

setStatusAndCompact(q, entryId, newStatus) ==
    LET k == q[entryId].position
        d == q[entryId].doctor
        q1 == [q EXCEPT ![entryId].status = newStatus]
    IN IF newStatus = "completed"
       THEN [i \in 1..Len(q1) |->
                IF q1[i].doctor = d /\ q1[i].status = "waiting"
                   /\ q1[i].position > k
                THEN [q1[i] EXCEPT !.position = @ - 1]
                ELSE q1[i]]
       ELSE q1

\* updateQueueStatus without the transition guard of `in-progress`
updateQueueStatusNoGuard(u, entryId, status) ==
    LET newStatus == ToLower(status)
    IN
    IF status = None \/ newStatus \notin {"in-progress", "completed"}
    THEN QueueError(400)
    ELSE IF entryId \notin 1..Len(queue) THEN QueueError(404)
    ELSE IF ~queueAuthorized(u, queue[entryId]) THEN QueueError(403)
    ELSE QueueOutcome(200, 0, entryId,
                      setStatusAndCompact(queue, entryId, newStatus))

\* updateQueueStatus with the transition guard of `in-progress` placed after
\* the write
updateQueueStatusGuardAfterWrite(u, entryId, status) ==
    LET newStatus == ToLower(status)
    IN
    IF status = None \/ newStatus \notin {"in-progress", "completed"}
    THEN QueueError(400)
    ELSE IF entryId \notin 1..Len(queue) THEN QueueError(404)
    ELSE IF ~queueAuthorized(u, queue[entryId]) THEN QueueError(403)
    ELSE IF newStatus = "in-progress" /\ queue[entryId].status # "waiting"
    THEN QueueOutcome(400, 0, 0,
                      setStatusAndCompact(queue, entryId, newStatus))
    ELSE QueueOutcome(200, 0, entryId,
                      setStatusAndCompact(queue, entryId, newStatus))

\* updateQueueStatus whose transition guard compares the status as sent
\* instead of its lower-case form
updateQueueStatusRawGuard(u, entryId, status) ==
    LET newStatus == ToLower(status)
    IN
    IF status = None \/ newStatus \notin {"in-progress", "completed"}
    THEN QueueError(400)
    ELSE IF entryId \notin 1..Len(queue) THEN QueueError(404)
    ELSE IF ~queueAuthorized(u, queue[entryId]) THEN QueueError(403)
    ELSE IF status = "in-progress" /\ queue[entryId].status # "waiting"
    THEN QueueError(400)
    ELSE QueueOutcome(200, 0, entryId,
                      setStatusAndCompact(queue, entryId, newStatus))

\* the updateQueueStatus handler
updateQueueStatus(u, entryId, status) ==
    LET newStatus == ToLower(status)
    IN
    IF status = None \/ newStatus \notin {"in-progress", "completed"}
    THEN QueueError(400)
    ELSE IF entryId \notin 1..Len(queue) THEN QueueError(404)
    ELSE IF ~queueAuthorized(u, queue[entryId]) THEN QueueError(403)
    ELSE IF newStatus = "in-progress" /\ queue[entryId].status # "waiting"
    THEN QueueError(400)
    ELSE QueueOutcome(200, 0, entryId,
                      setStatusAndCompact(queue, entryId, newStatus))

\* the getMyQueueStatus handler: the caller's first waiting or in-progress
\* entry (of any doctor) in natural order, or null
getMyQueueStatus(u) ==
    LET patientId == PatientOf(u)
        m == {i \in 1..Len(queue) : /\ queue[i].patient = patientId
                                    /\ queue[i].status \in ActiveQueueStatuses}
    IN
    IF patientId = None THEN QueueError(404)
    ELSE IF m = {} THEN QueueOutcome(200, 0, 0, queue)
    ELSE QueueOutcome(200, queue[Min(m)].position, Min(m), queue)

\* GET /queue/me : verifyRole(["patient"]), getMyQueueStatus
GetMyQueueStatusRoute(u) ==
    IF verifyRole({"patient"}, u) # 0
    THEN QueueError(verifyRole({"patient"}, u))
    ELSE getMyQueueStatus(u)

\* POST /queue/join : verifyRole(["patient"]), joinQueue
JoinQueueRoute(u, doctorId) ==
    IF verifyRole({"patient"}, u) # 0
    THEN QueueError(verifyRole({"patient"}, u))
    ELSE joinQueue(u, doctorId)

\* PATCH /queue/:entryId/status : verifyRole(["doctor","admin"]),
\* updateQueueStatus
UpdateQueueStatusRoute(u, entryId, status) ==
    IF verifyRole({"doctor", "admin"}, u) # 0
    THEN QueueError(verifyRole({"doctor", "admin"}, u))
    ELSE updateQueueStatus(u, entryId, status)

\* one request served to completion
JoinQueueStep ==
    \E u \in Callers, d \in DoctorIdInputs :
        /\ Len(JoinQueueRoute(u, d).queue) <= MaxEntries
        /\ queue' = JoinQueueRoute(u, d).queue
        /\ UNCHANGED <<patients, doctors, appts, now, inflight>>

UpdateQueueStatusStep ==
    \E u \in Callers, e \in 1..MaxEntries, s \in QueueStatusInputs :
        /\ queue' = UpdateQueueStatusRoute(u, e, s).queue
        /\ UNCHANGED <<patients, doctors, appts, now, inflight>>

\* a read: the response is sent, nothing is written
GetMyQueueStatusStep ==
    \E u \in Callers :
        /\ queue' = GetMyQueueStatusRoute(u).queue
        /\ UNCHANGED <<patients, doctors, appts, now, inflight>>

NextQueue == JoinQueueStep \/ UpdateQueueStatusStep \/ GetMyQueueStatusStep

SpecQueue == Init /\ [][NextQueue]_vars

\* a minute passes between two requests
Tick ==
    /\ now < MaxNow
    /\ now' = now + 1
    /\ UNCHANGED <<patients, doctors, queue, appts, inflight>>

\* a join request served while the clock runs
JoinQueueTimedStep ==
    \E u \in Callers, d \in DoctorIdInputs :
        /\ Len(JoinQueueRoute(u, d).queue) <= MaxTimedEntries
        /\ queue' = JoinQueueRoute(u, d).queue
        /\ UNCHANGED <<patients, doctors, appts, now, inflight>>

NextQueueClock ==
    JoinQueueTimedStep \/ UpdateQueueStatusStep \/ GetMyQueueStatusStep \/ Tick

\* the Queue Manager with time passing
SpecQueueClock == Init /\ [][NextQueueClock]_vars

\* ===================================================== queue properties
WaitingOf(d) ==
    {i \in 1..Len(queue) : queue[i].doctor = d /\ queue[i].status = "waiting"}

ActiveFor(d, p) ==
    {i \in 1..Len(queue) : /\ queue[i].doctor = d /\ queue[i].patient = p
                           /\ queue[i].status \in {"waiting", "in-progress"}}

\* C1: for every doctor D the positions of D's waiting entries are exactly
\* {1..N}, N the number of D's waiting entries (no duplicates, no gaps).
C1_WaitingPositionsContiguous ==
    \A d \in DoctorIds :
        {queue[i].position : i \in WaitingOf(d)} = 1..Cardinality(WaitingOf(d))

\* C5: in every reachable state, a successful completion of an entry e
\* (position k, doctor D) decrements by exactly 1 the position of every other
\* waiting entry of D with position > k and leaves position and status of
\* every other entry unchanged; no entry is created.
C5_CompletionCompactsOnlyBehind ==
    \A u \in Users, e \in 1..Len(queue), s \in QueueStatusInputs :
        LET r == UpdateQueueStatusRoute(u, e, s) IN
        (r.code = 200 /\ ToLower(s) = "completed")
        => /\ Len(r.queue) = Len(queue)
           /\ r.queue[e].status = "completed"
           /\ r.queue[e].position = queue[e].position
           /\ \A i \in (1..Len(queue)) \ {e} :
                /\ r.queue[i].status = queue[i].status
                /\ r.queue[i].doctor = queue[i].doctor
                /\ r.queue[i].patient = queue[i].patient
                /\ r.queue[i].position =
                     IF /\ queue[i].doctor = queue[e].doctor
                        /\ queue[i].status = "waiting"
                        /\ queue[i].position > queue[e].position
                     THEN queue[i].position - 1
                     ELSE queue[i].position

\* the entry at position 2 has been completed: the waiting entry at position
\* 1 is still there and a later-joined waiting entry of the same doctor has
\* moved up to position 2
C5_Witness ==
    \E e, a, c \in 1..Len(queue) :
         /\ queue[e].status = "completed" /\ queue[e].position = 2
         /\ queue[a].doctor = queue[e].doctor /\ queue[a].status = "waiting"
         /\ queue[a].position = 1
         /\ c > e /\ queue[c].doctor = queue[e].doctor
         /\ queue[c].status = "waiting" /\ queue[c].position = 2

\* C6: for every doctor D and patient P at most one queue entry for (D, P)
\* has a status other than completed.
C6_OneActiveEntryPerPair ==
    \A d \in DoctorIds, p \in PatientIds : Cardinality(ActiveFor(d, p)) <= 1

\* a patient holds a completed and an in-progress entry with the same doctor
\* (joined again after completion) and the next join is refused
C6_Witness ==
    \E i, j \in 1..Len(queue), u \in Users :
         /\ queue[i].doctor = queue[j].doctor
         /\ queue[i].patient = queue[j].patient
         /\ queue[i].status = "completed"
         /\ queue[j].status = "in-progress"
         /\ PatientOf(u) = queue[j].patient
         /\ JoinQueueRoute(u, queue[j].doctor).code = 409

\* C7: in every reachable state, joinQueue by a patient who already holds a
\* waiting or in-progress entry for the same doctor answers 409, reports that
\* entry's position, creates no entry and changes no entry.
C7_DuplicateJoinConflict ==
    \A u \in Users, d \in DoctorIds :
        (Role[u] = "patient" /\ ActiveFor(d, PatientOf(u)) # {})
        => LET r == JoinQueueRoute(u, d) IN
           /\ r.code = 409
           /\ \E i \in ActiveFor(d, PatientOf(u)) : r.info = queue[i].position
           /\ r.queue = queue

\* a patient holds an in-progress entry at position 2 and joining the same
\* doctor again is answered 409 with position 2
C7_Witness ==
    \E i \in 1..Len(queue), u \in Users :
         /\ queue[i].status = "in-progress" /\ queue[i].position = 2
         /\ PatientOf(u) = queue[i].patient
         /\ JoinQueueRoute(u, queue[i].doctor).code = 409
         /\ JoinQueueRoute(u, queue[i].doctor).info = 2

\* who may change a queue entry's status, stated from the specification
MayUpdateEntry(u, e) ==
    \/ Role[u] = "admin"
    \/ Role[u] = "doctor" /\ \E d \in doctors : d.user = u /\ d.id = e.doctor

\* the status values updateQueueStatus accepts (compared in lower case)
ValidQueueStatuses == {"in-progress", "completed"}

\* C12: in every reachable state, updateQueueStatus on an existing entry with
\* a valid new status is applied (200, or any change of the queue) only for an
\* admin or the doctor-role user whose doctor profile is the entry's doctor;
\* every other caller is answered 403 and no status and no position changes.
C12_QueueStatusAuthorization ==
    \A u \in Users, e \in 1..Len(queue), s \in QueueStatusInputs \ {None} :
        ToLower(s) \in ValidQueueStatuses
        => LET r == UpdateQueueStatusRoute(u, e, s) IN
           IF MayUpdateEntry(u, queue[e])
           THEN r.code # 403
           ELSE r.code = 403 /\ r.queue = queue

\* two waiting entries of doctor D1: completing the first is refused with 403
\* to the other doctor, the doctor without a profile and the patients, and
\* applied for the owning doctor and the admin
C12_Witness ==
    \E e, f \in 1..Len(queue) :
        /\ e # f
        /\ queue[e].doctor = "D1" /\ queue[e].status = "waiting"
        /\ queue[e].position = 1
        /\ queue[f].doctor = "D1" /\ queue[f].status = "waiting"
        /\ \A u \in {"ud2", "ud3", "up1", "up3"} :
              UpdateQueueStatusRoute(u, e, "completed").code = 403
        /\ \A u \in {"ud1", "ua"} :
              /\ UpdateQueueStatusRoute(u, e, "completed").code = 200
              /\ UpdateQueueStatusRoute(u, e, "completed").queue[f].position = 1

\* C13: in every reachable state a successful joinQueue for doctor D creates
\* exactly one entry, with status waiting, position 1 + the highest position
\* among D's waiting entries (1 if D has none) and estimatedTime = the time of
\* the join + (position - 1) * 15 minutes, and changes no other entry; and
\* when D's queue is P waiting at position 1 and Q waiting at position 2,
\* completing P leaves Q at position 1.
C13_JoinPositionAndEstimate ==
    /\ \A u \in Users, d \in DoctorIdInputs :
          LET r == JoinQueueRoute(u, d)
              n == Len(queue) + 1
              w == {queue[i].position : i \in WaitingOf(d)}
          IN r.code = 201
             => /\ Len(r.queue) = n
                /\ SubSeq(r.queue, 1, n - 1) = queue
                /\ r.queue[n].doctor = d
                /\ r.queue[n].status = "waiting"
                /\ r.queue[n].position = IF w = {} THEN 1 ELSE 1 + Max(w)
                /\ r.info = r.queue[n].position
                /\ r.queue[n].estimatedTime
                     = now + (r.queue[n].position - 1) * 15
    /\ \A u \in Users, p, q \in 1..Len(queue) :
          (/\ queue[p].doctor = queue[q].doctor
           /\ queue[p].status = "waiting" /\ queue[p].position = 1
           /\ queue[q].status = "waiting" /\ queue[q].position = 2
           /\ UpdateQueueStatusRoute(u, p, "completed").code = 200)
          => UpdateQueueStatusRoute(u, p, "completed").queue[q].position = 1

\* P joined the empty queue of D1 at minute 0 (position 1, estimated minute
\* 0), Q joined a minute later (position 2, estimated minute 1 + 15), P has
\* been completed and Q is at position 1
C13_Witness ==
    /\ Len(queue) = 2
    /\ queue[1].doctor = "D1" /\ queue[2].doctor = "D1"
    /\ queue[1].status = "completed" /\ queue[1].position = 1
    /\ queue[1].estimatedTime = 0
    /\ queue[2].status = "waiting" /\ queue[2].position = 1
    /\ queue[2].estimatedTime = 16

\* D's entries that are waiting or in-progress
NotCompletedOf(d) ==
    {i \in 1..Len(queue) : /\ queue[i].doctor = d
                           /\ queue[i].status \in {"waiting", "in-progress"}}

\* C14: for every doctor D the positions of D's waiting and in-progress
\* entries are pairwise distinct and are exactly {1..M}, M the number of those
\* entries.
C14_ActivePositionsDense ==
    \A d \in DoctorIds :
        {queue[i].position : i \in NotCompletedOf(d)}
            = 1..Cardinality(NotCompletedOf(d))

\* C21: in every reachable state, updateQueueStatus with `in-progress` in any
\* letter case by an authorized caller is answered 200 and sets the entry to
\* in-progress (nothing else changing) when the entry is waiting, and is
\* answered 400 and changes no entry when the entry is in-progress or
\* completed.
C21_InProgressOnlyFromWaiting ==
    \A u \in Users, e \in 1..Len(queue), s \in QueueStatusInputs \ {None} :
        (ToLower(s) = "in-progress" /\ MayUpdateEntry(u, queue[e]))
        => LET r == UpdateQueueStatusRoute(u, e, s) IN
           IF queue[e].status = "waiting"
           THEN /\ r.code = 200
                /\ r.queue = [queue EXCEPT ![e].status = "in-progress"]
           ELSE r.code = 400 /\ r.queue = queue

\* D1 has an in-progress, a completed and a waiting entry: `In-Progress` is
\* refused with 400 on the first two and applied to the third
C21_Witness ==
    \E a, b, c \in 1..Len(queue) :
        /\ queue[a].doctor = "D1" /\ queue[a].status = "in-progress"
        /\ queue[b].doctor = "D1" /\ queue[b].status = "completed"
        /\ queue[c].doctor = "D1" /\ queue[c].status = "waiting"
        /\ UpdateQueueStatusRoute("ud1", a, "In-Progress").code = 400
        /\ UpdateQueueStatusRoute("ua", b, "In-Progress").code = 400
        /\ UpdateQueueStatusRoute("ud1", b, "in-progress").code = 400
        /\ UpdateQueueStatusRoute("ud1", c, "In-Progress").code = 200

\* ================================================== Appointment Scheduler
\* The outcome of an appointment request: the HTTP status, the _id of the
\* appointment the response returns (0 if none) and the Appointment
\* collection after the request.
ApptOutcome(code, id, a) == [code |-> code, id |-> id, appts |-> a]

\* a thrown ApiError(code): nothing written
ApptError(code) == ApptOutcome(code, 0, appts)

\* conflict with the filter status: "pending" (confirmed forgotten)
conflictPendingOnly(doctorId, date, startTime) ==
    \E i \in 1..Len(appts) :
        /\ appts[i].doctor = doctorId
        /\ appts[i].date = ParseDate(date)
        /\ appts[i].startTime = startTime
        /\ appts[i].status = "pending"

\* Appointment.findOne({doctor, "slot.date": new Date(date),
\* "slot.startTime": startTime, status: {$in: [pending, confirmed]}})
conflict(doctorId, date, startTime) ==
    \E i \in 1..Len(appts) :
        /\ appts[i].doctor = doctorId
        /\ appts[i].date = ParseDate(date)
        /\ appts[i].startTime = startTime
        /\ appts[i].status \in {"pending", "confirmed"}

\* the bookAppointment handler
bookAppointment(u, b) ==
    LET patientId == PatientOf(u)
    IN
    IF b.doctorId = None \/ b.date = None \/ b.startTime = None
       \/ b.endTime = None
    THEN ApptError(400)
    ELSE IF patientId = None THEN ApptError(404)
    ELSE IF ~DoctorExists(b.doctorId) THEN ApptError(404)
    ELSE IF conflict(b.doctorId, b.date, b.startTime) THEN ApptError(409)
    ELSE ApptOutcome(201, Len(appts) + 1,
             Append(appts, [patient |-> patientId, doctor |-> b.doctorId,
                            date |-> ParseDate(b.date),
                            startTime |-> b.startTime, endTime |-> b.endTime,
                            status |-> "pending"]))

\* apptStatusAuthorized without the comparison of the appointment's doctor
\* to the caller's doctor profile
apptStatusAuthorizedAnyDoctor(u, a) ==
    \/ Role[u] = "admin"
    \/ Role[u] = "doctor"

\* the ownership check of updateAppointmentStatus
apptStatusAuthorized(u, a) ==
    \/ Role[u] = "admin"
    \/ /\ Role[u] = "doctor"
       /\ DoctorOf(u) # None
       /\ a.doctor = DoctorOf(u)

\* the updateAppointmentStatus handler: the transition guards compare the
\* status as sent, the validation and the write use its lower-case form
updateAppointmentStatus(u, id, status) ==
    IF status = None
       \/ ToLower(status) \notin {"confirmed", "cancelled", "completed"}
    THEN ApptError(400)
    ELSE IF id \notin 1..Len(appts) THEN ApptError(404)
    ELSE IF ~apptStatusAuthorized(u, appts[id]) THEN ApptError(403)
    ELSE IF status = "completed" /\ appts[id].status # "confirmed"
    THEN ApptError(400)
    ELSE IF status = "confirmed" /\ appts[id].status # "pending"
    THEN ApptError(400)
    ELSE ApptOutcome(200, id, [appts EXCEPT ![id].status = ToLower(status)])

\* cancelAuthorized that lets every doctor-role caller through
cancelAuthorizedAnyDoctor(u, a) ==
    \/ Role[u] = "admin"
    \/ PatientOf(u) # None /\ a.patient = PatientOf(u)
    \/ Role[u] = "doctor"

\* the ownership check of cancelAppointment
cancelAuthorized(u, a) ==
    \/ Role[u] = "admin"
    \/ PatientOf(u) # None /\ a.patient = PatientOf(u)
    \/ DoctorOf(u) # None /\ a.doctor = DoctorOf(u)

\* cancelAppointment without the guard on completed / cancelled
cancelAppointmentNoGuard(u, id) ==
    IF id \notin 1..Len(appts) THEN ApptError(404)
    ELSE IF ~cancelAuthorized(u, appts[id]) THEN ApptError(403)
    ELSE ApptOutcome(200, id, [appts EXCEPT ![id].status = "cancelled"])

\* the cancelAppointment handler
cancelAppointment(u, id) ==
    IF id \notin 1..Len(appts) THEN ApptError(404)
    ELSE IF ~cancelAuthorized(u, appts[id]) THEN ApptError(403)
    ELSE IF appts[id].status \in {"completed", "cancelled"} THEN ApptError(400)
    ELSE ApptOutcome(200, id, [appts EXCEPT ![id].status = "cancelled"])

\* the outcome of a listing: the HTTP status and the _ids of the returned docs
ListOutcome(code, docs) == [code |-> code, docs |-> docs]

\* getUserAppointments whose doctor branch does not add query.doctor
getUserAppointmentsDoctorSeesAll(u, status) ==
    LET match(p, d) ==
            {i \in 1..Len(appts) :
                /\ status # None => appts[i].status = status
                /\ p # None => appts[i].patient = p
                /\ d # None => appts[i].doctor = d}
    IN
    IF Role[u] = "patient"
    THEN IF PatientOf(u) = None THEN ListOutcome(200, {})
         ELSE ListOutcome(200, match(PatientOf(u), None))
    ELSE IF Role[u] = "doctor"
    THEN IF DoctorOf(u) = None THEN ListOutcome(200, {})
         ELSE ListOutcome(200, match(None, None))
    ELSE IF Role[u] # "admin" THEN ListOutcome(403, {})
    ELSE ListOutcome(200, match(None, None))

\* the getUserAppointments handler: query.status = status when the query
\* string carries one, query.patient / query.doctor by role, then
\* Appointment.paginate (page 1 of the default limit 10 holds every match
\* while fewer than 10 appointments exist)
getUserAppointments(u, status) ==
    LET match(p, d) ==
            {i \in 1..Len(appts) :
                /\ status # None => appts[i].status = status
                /\ p # None => appts[i].patient = p
                /\ d # None => appts[i].doctor = d}
    IN
    IF Role[u] = "patient"
    THEN IF PatientOf(u) = None THEN ListOutcome(200, {})
         ELSE ListOutcome(200, match(PatientOf(u), None))
    ELSE IF Role[u] = "doctor"
    THEN IF DoctorOf(u) = None THEN ListOutcome(200, {})
         ELSE ListOutcome(200, match(None, DoctorOf(u)))
    ELSE IF Role[u] # "admin" THEN ListOutcome(403, {})
    ELSE ListOutcome(200, match(None, None))

\* GET /appointments : getUserAppointments (no role gate)
GetUserAppointmentsRoute(u, status) == getUserAppointments(u, status)

\* POST /appointments : verifyRole(["patient"]), bookAppointment
BookAppointmentRoute(u, b) ==
    IF verifyRole({"patient"}, u) # 0
    THEN ApptError(verifyRole({"patient"}, u))
    ELSE bookAppointment(u, b)

\* PATCH /appointments/:id/status : verifyRole(["doctor","admin"]),
\* updateAppointmentStatus
UpdateAppointmentStatusRoute(u, id, status) ==
    IF verifyRole({"doctor", "admin"}, u) # 0
    THEN ApptError(verifyRole({"doctor", "admin"}, u))
    ELSE updateAppointmentStatus(u, id, status)

\* PATCH /appointments/:id/cancel : cancelAppointment (no role gate)
CancelAppointmentRoute(u, id) == cancelAppointment(u, id)

\* one request served to completion
BookAppointmentStep ==
    \E u \in Callers, b \in BookingInputs :
        /\ Len(BookAppointmentRoute(u, b).appts) <= MaxAppts
        /\ appts' = BookAppointmentRoute(u, b).appts
        /\ UNCHANGED <<patients, doctors, queue, now, inflight>>

UpdateAppointmentStatusStep ==
    \E u \in Callers, id \in 1..MaxAppts, s \in ApptStatusInputs :
        /\ appts' = UpdateAppointmentStatusRoute(u, id, s).appts
        /\ UNCHANGED <<patients, doctors, queue, now, inflight>>

CancelAppointmentStep ==
    \E u \in Users, id \in 1..MaxAppts :
        /\ appts' = CancelAppointmentRoute(u, id).appts
        /\ UNCHANGED <<patients, doctors, queue, now, inflight>>

\* a read: the response is sent, nothing is written
GetUserAppointmentsStep ==
    \E u \in Users, s \in ApptStatusInputs :
        /\ GetUserAppointmentsRoute(u, s).code \in {200, 403}
        /\ UNCHANGED vars

NextAppt ==
    \/ BookAppointmentStep
    \/ UpdateAppointmentStatusStep
    \/ CancelAppointmentStep
    \/ GetUserAppointmentsStep

SpecAppt == Init /\ [][NextAppt]_vars

\* ------------------------------- Queue Manager and Appointment Scheduler
\* the two routers mounted in one application, the documents created
\* bounded together; bookings are drawn from one slot of each doctor, the
\* first one spelled in two ways, an unknown doctor and a missing field
HospitalBookingInputs ==
    {Body("D1", "2025-01-10", "09:00", "09:30"),
     Body("D1", "2025-01-10T00:00:00.000Z", "09:00", "09:30"),
     Body("D2", "2025-01-10", "09:00", "09:30"),
     Body("D9", "2025-01-10", "09:00", "09:30"),
     Body(None, "2025-01-10", "09:00", "09:30")}
HospitalJoinQueueStep ==
    \E u \in Callers, d \in DoctorIdInputs :
        /\ Len(JoinQueueRoute(u, d).queue) + Len(appts) <= MaxDocs
        /\ queue' = JoinQueueRoute(u, d).queue
        /\ UNCHANGED <<patients, doctors, appts, now, inflight>>

HospitalBookAppointmentStep ==
    \E u \in Callers, b \in HospitalBookingInputs :
        /\ Len(queue) + Len(BookAppointmentRoute(u, b).appts) <= MaxDocs
        /\ appts' = BookAppointmentRoute(u, b).appts
        /\ UNCHANGED <<patients, doctors, queue, now, inflight>>

NextHospital ==
    \/ HospitalJoinQueueStep
    \/ UpdateQueueStatusStep
    \/ GetMyQueueStatusStep
    \/ HospitalBookAppointmentStep
    \/ UpdateAppointmentStatusStep
    \/ CancelAppointmentStep
    \/ GetUserAppointmentsStep

SpecHospital == Init /\ [][NextHospital]_vars

\* ================================================ appointment properties
ActiveApptStatuses == {"pending", "confirmed"}

SameSlot(a, b) ==
    a.doctor = b.doctor /\ a.date = b.date /\ a.startTime = b.startTime

\* C2: no two distinct appointments with the same doctor, date and startTime
\* both have a status in {pending, confirmed}.
C2_NoDoubleBooking ==
    \A i, j \in 1..Len(appts) :
        (/\ i # j
         /\ SameSlot(appts[i], appts[j])
         /\ appts[i].status \in ActiveApptStatuses)
        => appts[j].status \notin ActiveApptStatuses

\* who may change an appointment's status, stated from the specification
MayUpdateAppt(u, a) ==
    \/ Role[u] = "admin"
    \/ Role[u] = "doctor" /\ \E d \in doctors : d.user = u /\ d.id = a.doctor

\* C3: for every status value the validation accepts and every authorized
\* caller, a request to set completed on an appointment that is not confirmed,
\* and a request to set confirmed on one that is not pending, is answered 400
\* and leaves the appointments unchanged.
C3_TransitionGuards ==
    \A u \in Users, id \in 1..Len(appts), s \in ApptStatusInputs \ {None} :
        LET r == UpdateAppointmentStatusRoute(u, id, s) IN
        (/\ MayUpdateAppt(u, appts[id])
         /\ \/ ToLower(s) = "completed" /\ appts[id].status # "confirmed"
            \/ ToLower(s) = "confirmed" /\ appts[id].status # "pending")
        => r.code = 400 /\ r.appts = appts

\* the status changes of the appointment state machine
LegalApptChanges ==
    {<<"pending", "confirmed">>, <<"confirmed", "completed">>,
     <<"pending", "cancelled">>, <<"confirmed", "cancelled">>}

\* C4: completed and cancelled are terminal and the only status changes that
\* ever occur are pending->confirmed, confirmed->completed,
\* pending->cancelled and confirmed->cancelled.
C4_ApptStateMachine ==
    [][\A id \in 1..Len(appts) :
          appts'[id].status # appts[id].status
          => <<appts[id].status, appts'[id].status>> \in LegalApptChanges
    ]_vars

\* the patient profile of a caller and the doctors, stated from the specification
ProfileOf(u) == {p.id : p \in {q \in patients : q.user = u}}
KnownDoctors == {d.id : d \in doctors}

MayCancelAppt(u, a) ==
    \/ Role[u] = "admin"
    \/ \E p \in patients : p.user = u /\ p.id = a.patient
    \/ \E d \in doctors : d.user = u /\ d.id = a.doctor

\* C9: cancelAppointment by an authorized caller answers 400 and leaves the
\* status unchanged when the appointment is completed or cancelled, and
\* answers 200 and sets the status to cancelled (nothing else changing) when
\* it is pending or confirmed.
C9_CancelByStatus ==
    \A u \in Users, id \in 1..Len(appts) :
        MayCancelAppt(u, appts[id])
        => LET r == CancelAppointmentRoute(u, id) IN
           IF appts[id].status \in {"completed", "cancelled"}
           THEN r.code = 400 /\ r.appts = appts
           ELSE /\ r.code = 200
                /\ r.appts = [appts EXCEPT ![id].status = "cancelled"]

\* a completed appointment whose owning patient is refused with 400, next to
\* a confirmed one whose owning doctor may still cancel it
C9_Witness ==
    \E i, j \in 1..Len(appts) :
        /\ appts[i].status = "completed" /\ appts[i].patient = "P1"
        /\ CancelAppointmentRoute("up1", i).code = 400
        /\ appts[j].status = "confirmed" /\ appts[j].doctor = "D1"
        /\ CancelAppointmentRoute("ud1", j).code = 200

\* C10: cancelAppointment is authorized exactly for an admin, the user whose
\* patient profile is the appointment's patient and the user whose doctor
\* profile is the appointment's doctor; any other caller is answered 403 and
\* the appointment is unchanged.
C10_CancelAuthorization ==
    \A u \in Users, id \in 1..Len(appts) :
        LET r == CancelAppointmentRoute(u, id) IN
        IF MayCancelAppt(u, appts[id])
        THEN r.code # 403
        ELSE r.code = 403 /\ r.appts = appts

\* a pending appointment of patient P1 with doctor D1: the other patient, the
\* other doctor and the users without a profile are refused, the owners and
\* the admin are not
C10_Witness ==
    \E id \in 1..Len(appts) :
        /\ appts[id].status = "pending"
        /\ appts[id].patient = "P1" /\ appts[id].doctor = "D1"
        /\ \A u \in {"up2", "up3", "ud2", "ud3"} :
              CancelAppointmentRoute(u, id).code = 403
        /\ \A u \in {"up1", "ud1", "ua"} :
              CancelAppointmentRoute(u, id).code = 200

\* the status values updateAppointmentStatus accepts (compared in lower case)
ValidApptStatuses == {"confirmed", "cancelled", "completed"}

\* C11: in every reachable state, updateAppointmentStatus on an existing
\* appointment with a valid new status is applied (200, or any change of the
\* appointments) only for an admin or the doctor-role user whose doctor
\* profile is the appointment's doctor; a doctor-role user who does not own
\* the appointment, or has no doctor profile, is answered 403 and the
\* appointments are unchanged.
C11_ApptStatusAuthorization ==
    \A u \in Users, id \in 1..Len(appts), s \in ApptStatusInputs \ {None} :
        ToLower(s) \in ValidApptStatuses
        => LET r == UpdateAppointmentStatusRoute(u, id, s) IN
           /\ (r.code = 200 \/ r.appts # appts) => MayUpdateAppt(u, appts[id])
           /\ (Role[u] = "doctor" /\ ~MayUpdateAppt(u, appts[id]))
              => (r.code = 403 /\ r.appts = appts)

\* a pending appointment of doctor D1: the other doctor and the doctor without
\* a profile are refused with 403, the owning doctor and the admin confirm it
C11_Witness ==
    \E id \in 1..Len(appts) :
        /\ appts[id].status = "pending" /\ appts[id].doctor = "D1"
        /\ \A u \in {"ud2", "ud3"} :
              UpdateAppointmentStatusRoute(u, id, "confirmed").code = 403
        /\ \A u \in {"ud1", "ua"} :
              UpdateAppointmentStatusRoute(u, id, "confirmed").code = 200

\* the doctor profiles of a caller, stated from the specification
DoctorProfileOf(u) == {d.id : d \in {e \in doctors : e.user = u}}

\* C17: in every reachable state getUserAppointments returns to a patient
\* only appointments of the caller's own patient profile, to a doctor only
\* appointments of the caller's own doctor profile, and to an admin all
\* appointments; a patient or doctor without a profile gets an empty result
\* with 200; any other role gets 403; with a status filter only appointments
\* with exactly that status are returned.
C17_AppointmentListScope ==
    \A u \in Users, s \in ApptStatusInputs :
        LET r == GetUserAppointmentsRoute(u, s)
            all == 1..Len(appts)
        IN
        /\ Role[u] = "patient"
           => /\ r.code = 200
              /\ r.docs \subseteq {i \in all : appts[i].patient \in ProfileOf(u)}
              /\ ProfileOf(u) = {} => r.docs = {}
        /\ Role[u] = "doctor"
           => /\ r.code = 200
              /\ r.docs \subseteq
                    {i \in all : appts[i].doctor \in DoctorProfileOf(u)}
              /\ DoctorProfileOf(u) = {} => r.docs = {}
        /\ Role[u] = "admin"
           => /\ r.code = 200
              /\ s = None => r.docs = all
        /\ Role[u] \notin {"patient", "doctor", "admin"}
           => r.code = 403 /\ r.docs = {}
        /\ s # None => \A i \in r.docs : appts[i].status = s

\* P1 holds a cancelled appointment with D1 and P2 a pending one with D2: each
\* owner sees the own one, the admin both, the accounts without profile
\* nothing, the account of another role is refused, and the filters
\* `cancelled` and `Cancelled` select one appointment and none
C17_Witness ==
    \E i, j \in 1..Len(appts) :
        /\ appts[i].patient = "P1" /\ appts[i].doctor = "D1"
        /\ appts[i].status = "cancelled"
        /\ appts[j].patient = "P2" /\ appts[j].doctor = "D2"
        /\ appts[j].status = "pending"
        /\ GetUserAppointmentsRoute("up1", None).docs = {i}
        /\ GetUserAppointmentsRoute("ud2", None).docs = {j}
        /\ GetUserAppointmentsRoute("ua", None).docs = {i, j}
        /\ GetUserAppointmentsRoute("up3", None) = ListOutcome(200, {})
        /\ GetUserAppointmentsRoute("ud3", None) = ListOutcome(200, {})
        /\ GetUserAppointmentsRoute("ux", None).code = 403
        /\ GetUserAppointmentsRoute("ua", "cancelled").docs = {i}
        /\ GetUserAppointmentsRoute("ua", "Cancelled").docs = {}

\* ======================================== properties of the whole backend
\* what the role gate answers, stated from the specification: 401 without an
\* identity, 403 for a role outside the allowed set, 0 to let the request on
GateAnswer(allowed, u) ==
    IF u = None THEN 401 ELSE IF Role[u] \notin allowed THEN 403 ELSE 0

\* C15: in every reachable state a request to join-queue, my-queue-status or
\* book-appointment (allowed roles {patient}) and a request to
\* update-queue-status or update-appointment-status (allowed roles {doctor,
\* admin}) from a caller without identity is answered 401, from a caller whose
\* role is not allowed 403, whatever the rest of the request, and nothing is
\* created or modified.
C15_RouteGate ==
    \A u \in Callers :
        LET gp == GateAnswer({"patient"}, u)
            gd == GateAnswer({"doctor", "admin"}, u)
        IN
        /\ gp # 0
           => /\ \A d \in DoctorIdInputs :
                    LET r == JoinQueueRoute(u, d) IN
                    r.code = gp /\ r.queue = queue
              /\ GetMyQueueStatusRoute(u).code = gp
              /\ GetMyQueueStatusRoute(u).id = 0
              /\ \A b \in BookingInputs :
                    LET r == BookAppointmentRoute(u, b) IN
                    r.code = gp /\ r.appts = appts
        /\ gd # 0
           => /\ \A e \in 1..MaxEntries, s \in QueueStatusInputs :
                    LET r == UpdateQueueStatusRoute(u, e, s) IN
                    r.code = gd /\ r.queue = queue
              /\ \A id \in 1..MaxAppts, s \in ApptStatusInputs :
                    LET r == UpdateAppointmentStatusRoute(u, id, s) IN
                    r.code = gd /\ r.appts = appts

\* P1 waits in D1's queue and holds a pending appointment with D1: requests
\* without identity are answered 401, the owning doctor may neither join nor
\* book, the owning patient may change neither status, and the account of
\* another role is refused everywhere
C15_Witness ==
    /\ Len(queue) = 1 /\ Len(appts) = 1
    /\ queue[1].doctor = "D1" /\ queue[1].patient = "P1"
    /\ queue[1].status = "waiting"
    /\ appts[1].doctor = "D1" /\ appts[1].patient = "P1"
    /\ appts[1].status = "pending"
    /\ JoinQueueRoute(None, "D2").code = 401
    /\ UpdateAppointmentStatusRoute(None, 1, "confirmed").code = 401
    /\ JoinQueueRoute("ud1", "D2").code = 403
    /\ BookAppointmentRoute("ud1",
           Body("D2", "2025-01-10", "09:00", "09:30")).code = 403
    /\ GetMyQueueStatusRoute("ua").code = 403
    /\ UpdateQueueStatusRoute("up1", 1, "completed").code = 403
    /\ UpdateAppointmentStatusRoute("up1", 1, "cancelled").code = 403
    /\ UpdateQueueStatusRoute("ux", 1, "completed").code = 403

\* the client-error answers of the handlers
ErrorCodes == {400, 403, 404, 409}

\* C16: in every reachable state, every joinQueue, updateQueueStatus,
\* bookAppointment, updateAppointmentStatus and cancelAppointment request that
\* is answered 400, 403, 404 or 409 leaves the stored collections as they
\* were: no document created, no field changed.
C16_ErrorsChangeNothing ==
    /\ \A u \in Callers, d \in DoctorIdInputs :
          LET r == JoinQueueRoute(u, d) IN
          r.code \in ErrorCodes => r.queue = queue
    /\ \A u \in Callers, e \in 1..MaxEntries, s \in QueueStatusInputs :
          LET r == UpdateQueueStatusRoute(u, e, s) IN
          r.code \in ErrorCodes => r.queue = queue
    /\ \A u \in Callers, b \in BookingInputs :
          LET r == BookAppointmentRoute(u, b) IN
          r.code \in ErrorCodes => r.appts = appts
    /\ \A u \in Callers, id \in 1..MaxAppts, s \in ApptStatusInputs :
          LET r == UpdateAppointmentStatusRoute(u, id, s) IN
          r.code \in ErrorCodes => r.appts = appts
    /\ \A u \in Users, id \in 1..MaxAppts :
          LET r == CancelAppointmentRoute(u, id) IN
          r.code \in ErrorCodes => r.appts = appts

\* P1 is in progress with D1 and holds a pending appointment with D1: each of
\* the four answers is given by a queue request and by an appointment request
C16_Witness ==
    /\ Len(queue) = 1 /\ Len(appts) = 1
    /\ queue[1].doctor = "D1" /\ queue[1].patient = "P1"
    /\ queue[1].status = "in-progress"
    /\ appts[1].doctor = "D1" /\ appts[1].patient = "P1"
    /\ appts[1].status = "pending"
    /\ UpdateQueueStatusRoute("ud1", 1, "in-progress").code = 400
    /\ UpdateQueueStatusRoute("ud2", 1, "completed").code = 403
    /\ UpdateQueueStatusRoute("ud1", 2, "completed").code = 404
    /\ JoinQueueRoute("up1", "D1").code = 409
    /\ UpdateAppointmentStatusRoute("ud1", 1, "completed").code = 400
    /\ CancelAppointmentRoute("up2", 1).code = 403
    /\ CancelAppointmentRoute("up1", 2).code = 404
    /\ BookAppointmentRoute("up2",
           Body("D1", "2025-01-10", "09:00", "09:30")).code = 409

\* ================================================ Profiles, verification
MaxProfiles == 3     \* Patient profiles, and Doctor profiles, ever created

\* the outcome of a profile request: the HTTP status and the Patient and
\* Doctor collections after the request
ProfileOutcome(code, p, d) == [code |-> code, patients |-> p, doctors |-> d]

\* a thrown ApiError(code): nothing written
ProfileError(code) == ProfileOutcome(code, patients, doctors)

\* the _id a newly created document gets
NewId(prefix, n) ==
    IF prefix = "P" THEN <<"P1", "P2", "P3", "P4", "P5">>[n]
    ELSE <<"D1", "D2", "D3", "D4", "D5">>[n]

\* gender.charAt(0).toUpperCase() + gender.slice(1).toLowerCase()
NormalizeGender(g) ==
    CASE g = "male"   -> "Male"
      [] g = "FEMALE" -> "Female"
      [] g = "robot"  -> "Robot"
      [] OTHER        -> g

\* !isNaN(new Date(d).getTime())
IsDate(d) ==
    d \in {"1990-05-01", "2025-01-10", "2025-01-10T00:00:00.000Z", "2025-01-11"}

\* phoneRegex /^\d{10}$/
IsPhone(p) == p \in {"9876543210"}

PatientBody(dateOfBirth, gender, address, phone) ==
    [dateOfBirth |-> dateOfBirth, gender |-> gender, address |-> address,
     phone |-> phone]

\* request bodies of POST /patients: complete ones with the gender in three
\* spellings, with and without an emergency phone, and one for each
\* validation that can fail (address stands for address, city and zipCode)
PatientBodies ==
    {PatientBody("1990-05-01", "male", "a", None),
     PatientBody("1990-05-01", "FEMALE", "a", "9876543210"),
     PatientBody("1990-05-01", "Other", "a", None),
     PatientBody(None, "male", "a", None),
     PatientBody("1990-05-01", "male", None, None),
     PatientBody("1990-05-01", "robot", "a", None),
     PatientBody("yesterday", "male", "a", None),
     PatientBody("1990-05-01", "male", "a", "12345")}

\* createPatientProfile without the check for an existing profile
createPatientProfileNoExistingCheck(u, b) ==
    IF Role[u] \notin {"patient", "admin"} THEN ProfileError(403)
    ELSE IF b.dateOfBirth = None \/ b.gender = None \/ b.address = None
    THEN ProfileError(400)
    ELSE IF NormalizeGender(b.gender) \notin {"Male", "Female", "Other"}
    THEN ProfileError(400)
    ELSE IF ~IsDate(b.dateOfBirth) THEN ProfileError(400)
    ELSE IF b.phone # None /\ ~IsPhone(b.phone) THEN ProfileError(400)
    ELSE ProfileOutcome(201,
             patients \cup {PatientDoc(NewId("P", Cardinality(patients) + 1),
                                       u, NormalizeGender(b.gender))},
             doctors)

\* the createPatientProfile handler
createPatientProfile(u, b) ==
    IF Role[u] \notin {"patient", "admin"} THEN ProfileError(403)
    ELSE IF PatientOf(u) # None THEN ProfileError(409)
    ELSE IF b.dateOfBirth = None \/ b.gender = None \/ b.address = None
    THEN ProfileError(400)
    ELSE IF NormalizeGender(b.gender) \notin {"Male", "Female", "Other"}
    THEN ProfileError(400)
    ELSE IF ~IsDate(b.dateOfBirth) THEN ProfileError(400)
    ELSE IF b.phone # None /\ ~IsPhone(b.phone) THEN ProfileError(400)
    ELSE ProfileOutcome(201,
             patients \cup {PatientDoc(NewId("P", Cardinality(patients) + 1),
                                       u, NormalizeGender(b.gender))},
             doctors)

\* POST /patients : verifyRole(["patient"]), createPatientProfile
CreatePatientProfileRoute(u, b) ==
    IF verifyRole({"patient"}, u) # 0
    THEN ProfileError(verifyRole({"patient"}, u))
    ELSE createPatientProfile(u, b)

DoctorBody(specialization, registrationNumber, file) ==
    [specialization |-> specialization,
     registrationNumber |-> registrationNumber, file |-> file]

\* request bodies of POST /doctors/profile: a registration number already
\* taken ("R1") or free ("R3"), a missing field, with and without the proof
\* document (req.file)
DoctorBodies ==
    {DoctorBody(sp, rn, f) : sp \in {"cardiology", None},
                             rn \in {"R1", "R3", None},
                             f \in {"proof.pdf", None}}

\* the createDoctorProfile handler; uploaded is whether uploadOnCloudinary
\* returned a url
createDoctorProfile(u, b, uploaded) ==
    IF Role[u] # "doctor" THEN ProfileError(403)
    ELSE IF b.specialization = None \/ b.registrationNumber = None
    THEN ProfileError(400)
    ELSE IF DoctorOf(u) # None THEN ProfileError(409)
    ELSE IF \E d \in doctors : d.registrationNumber = b.registrationNumber
    THEN ProfileError(409)
    ELSE IF b.file = None THEN ProfileError(400)
    ELSE IF ~uploaded THEN ProfileError(500)
    ELSE ProfileOutcome(201, patients,
             doctors \cup {DoctorDoc(NewId("D", Cardinality(doctors) + 1), u,
                                     b.specialization, b.registrationNumber,
                                     "url3")})

\* POST /doctors/profile : verifyRole(["doctor"]), createDoctorProfile
CreateDoctorProfileRoute(u, b, uploaded) ==
    IF verifyRole({"doctor"}, u) # 0
    THEN ProfileError(verifyRole({"doctor"}, u))
    ELSE createDoctorProfile(u, b, uploaded)

\* :id of a doctor route: existing ids, a well-formed id of no document and
\* a string that is no ObjectId
DoctorParamIds == {"D1", "D2", "D3", "D9", "not-an-id"}

\* mongoose.Types.ObjectId.isValid(id)
IsObjectId(id) == id # "not-an-id"

\* Doctor.findById(id): the set holding the document, empty for null
DoctorById(id) == {d \in doctors : d.id = id}

\* the fields a PATCH /doctors/:id body can carry and the value sent for each
UpdateKeys == {"specialization", "registrationNumber", "proofDocument",
               "isVerified", "verificationStatus"}

UpdateValue ==
    [specialization |-> "neurology", registrationNumber |-> "R9",
     proofDocument |-> "forged", isVerified |-> TRUE,
     verificationStatus |-> "approved"]

\* request bodies of PATCH /doctors/:id: every set of keys
UpdateBodies == {[k \in K |-> UpdateValue[k]] : K \in SUBSET UpdateKeys}

\* delete req.body[k] for each k of keys
Delete(b, keys) == [k \in (DOMAIN b) \ keys |-> b[k]]

\* Doctor.findByIdAndUpdate(id, {$set: b})
SetFields(id, b) ==
    {IF d.id = id
     THEN [f \in DOMAIN d |-> IF f \in DOMAIN b THEN b[f] ELSE d[f]]
     ELSE d : d \in doctors}

\* updateDoctorProfile without `delete req.body.verificationStatus`
updateDoctorProfileKeepsStatusKey(u, id, b) ==
    LET body == Delete(b, {"registrationNumber", "proofDocument",
                           "isVerified"})
    IN
    IF ~IsObjectId(id) THEN ProfileError(400)
    ELSE IF DoctorById(id) = {} THEN ProfileError(404)
    ELSE IF (\A d \in DoctorById(id) : d.user # u) /\ Role[u] # "admin"
    THEN ProfileError(403)
    ELSE IF DOMAIN body = {} THEN ProfileError(400)
    ELSE ProfileOutcome(200, patients, SetFields(id, body))

\* the updateDoctorProfile handler
updateDoctorProfile(u, id, b) ==
    LET body == Delete(b, {"registrationNumber", "proofDocument",
                           "isVerified", "verificationStatus"})
    IN
    IF ~IsObjectId(id) THEN ProfileError(400)
    ELSE IF DoctorById(id) = {} THEN ProfileError(404)
    ELSE IF (\A d \in DoctorById(id) : d.user # u) /\ Role[u] # "admin"
    THEN ProfileError(403)
    ELSE IF DOMAIN body = {} THEN ProfileError(400)
    ELSE ProfileOutcome(200, patients, SetFields(id, body))

\* PATCH /doctors/:id : verifyRole(["doctor","admin"]), updateDoctorProfile
UpdateDoctorProfileRoute(u, id, b) ==
    IF verifyRole({"doctor", "admin"}, u) # 0
    THEN ProfileError(verifyRole({"doctor", "admin"}, u))
    ELSE updateDoctorProfile(u, id, b)

\* status values a PATCH /admin/doctors/verify/:id body can carry
VerifyStatusInputs == {"approved", "rejected", "Approved", "pending", None}

\* verifyDoctor that writes verificationStatus and leaves isVerified alone
verifyDoctorStatusOnly(u, id, status) ==
    IF Role[u] # "admin" THEN ProfileError(403)
    ELSE IF status \notin {"approved", "rejected"} THEN ProfileError(400)
    ELSE IF ~IsObjectId(id) THEN ProfileError(400)
    ELSE IF DoctorById(id) = {} THEN ProfileError(404)
    ELSE ProfileOutcome(200, patients,
             {IF d.id = id
              THEN [d EXCEPT !.verificationStatus = status]
              ELSE d : d \in doctors})

\* the verifyDoctor handler
verifyDoctor(u, id, status) ==
    IF Role[u] # "admin" THEN ProfileError(403)
    ELSE IF status \notin {"approved", "rejected"} THEN ProfileError(400)
    ELSE IF ~IsObjectId(id) THEN ProfileError(400)
    ELSE IF DoctorById(id) = {} THEN ProfileError(404)
    ELSE ProfileOutcome(200, patients,
             {IF d.id = id
              THEN [d EXCEPT !.isVerified = (status = "approved"),
                             !.verificationStatus = status]
              ELSE d : d \in doctors})

\* PATCH /admin/doctors/verify/:id : verifyDoctor, which tests the role itself
VerifyDoctorRoute(u, id, status) == verifyDoctor(u, id, status)

\* one request served to completion
CreatePatientProfileStep ==
    \E u \in Callers, b \in PatientBodies :
        /\ Cardinality(CreatePatientProfileRoute(u, b).patients) <= MaxProfiles
        /\ patients' = CreatePatientProfileRoute(u, b).patients
        /\ UNCHANGED <<doctors, queue, appts, now, inflight>>

CreateDoctorProfileStep ==
    \E u \in Callers, b \in DoctorBodies, uploaded \in BOOLEAN :
        /\ Cardinality(CreateDoctorProfileRoute(u, b, uploaded).doctors)
             <= MaxProfiles
        /\ doctors' = CreateDoctorProfileRoute(u, b, uploaded).doctors
        /\ UNCHANGED <<patients, queue, appts, now, inflight>>

UpdateDoctorProfileStep ==
    \E u \in Callers, id \in DoctorParamIds, b \in UpdateBodies :
        /\ doctors' = UpdateDoctorProfileRoute(u, id, b).doctors
        /\ UNCHANGED <<patients, queue, appts, now, inflight>>

VerifyDoctorStep ==
    \E u \in Users, id \in DoctorParamIds, s \in VerifyStatusInputs :
        /\ doctors' = VerifyDoctorRoute(u, id, s).doctors
        /\ UNCHANGED <<patients, queue, appts, now, inflight>>

NextProfile ==
    \/ CreatePatientProfileStep
    \/ CreateDoctorProfileStep
    \/ UpdateDoctorProfileStep
    \/ VerifyDoctorStep

SpecProfile == Init /\ [][NextProfile]_vars

\* the verifyDoctor of the doctor controller (exported, mounted on no
\* route): Doctor.findById on an id that is no ObjectId throws a CastError
\* (500), and the fields are written with findByIdAndUpdate
verifyDoctorOfDoctorController(u, id, status) ==
    IF Role[u] # "admin" THEN ProfileError(403)
    ELSE IF status \notin {"approved", "rejected"} THEN ProfileError(400)
    ELSE IF ~IsObjectId(id) THEN ProfileError(500)
    ELSE IF DoctorById(id) = {} THEN ProfileError(404)
    ELSE ProfileOutcome(200, patients,
             {IF d.id = id
              THEN [d EXCEPT !.isVerified = (status = "approved"),
                             !.verificationStatus = status]
              ELSE d : d \in doctors})

\* a call of the doctor controller's verifyDoctor, as a route that mounted
\* it would make
VerifyDoctorOfDoctorControllerStep ==
    \E u \in Users, id \in DoctorParamIds, s \in VerifyStatusInputs :
        /\ doctors' = verifyDoctorOfDoctorController(u, id, s).doctors
        /\ UNCHANGED <<patients, queue, appts, now, inflight>>

\* the handlers that write a Doctor document's verification fields
NextVerification ==
    \/ CreateDoctorProfileStep
    \/ UpdateDoctorProfileStep
    \/ VerifyDoctorStep
    \/ VerifyDoctorOfDoctorControllerStep

SpecVerification == Init /\ [][NextVerification]_vars

\* booking and cancelling while an admin verifies doctors
NextBooking ==
    BookAppointmentStep \/ CancelAppointmentStep \/ VerifyDoctorStep

SpecBooking == Init /\ [][NextBooking]_vars

\* ================================= properties of profiles, verification
\* C18: an appointment is created only for a doctor whose verification status
\* is approved at the time of the call: no step ever adds an appointment whose
\* doctor is pending or rejected.
C18_OnlyApprovedBookable ==
    [][\A i \in 1..Len(appts') :
          i > Len(appts)
          => \E d \in doctors : /\ d.id = appts'[i].doctor
                                /\ d.verificationStatus = "approved"
    ]_vars

\* the fields of the Doctor documents that only verification may set
Protected(D) ==
    {[id |-> d.id, isVerified |-> d.isVerified,
      verificationStatus |-> d.verificationStatus,
      registrationNumber |-> d.registrationNumber,
      proofDocument |-> d.proofDocument] : d \in D}

\* updateDoctorProfile, whoever calls it and whatever the body carries, leaves
\* the protected fields of every Doctor as they were, and verifyDoctor called
\* by a non-admin changes nothing
UpdateAndNonAdminVerifyFrame ==
    /\ \A u \in Callers, id \in DoctorParamIds, b \in UpdateBodies :
          LET r == UpdateDoctorProfileRoute(u, id, b) IN
          Protected(r.doctors) = Protected(doctors) /\ r.patients = patients
    /\ \A u \in Users, id \in DoctorParamIds, s \in VerifyStatusInputs :
          Role[u] # "admin"
          => VerifyDoctorRoute(u, id, s) = ProfileError(403)

\* a step that changes isVerified or verificationStatus of a Doctor is a
\* successful verifyDoctor of that Doctor by an admin; no Doctor disappears
VerificationChangedOnlyByAdmin ==
    \A d \in doctors :
        \E d2 \in doctors' :
            /\ d2.id = d.id
            /\ (\/ d2.isVerified # d.isVerified
                \/ d2.verificationStatus # d.verificationStatus)
               => \E u \in Users, s \in VerifyStatusInputs :
                     /\ Role[u] = "admin"
                     /\ VerifyDoctorRoute(u, d.id, s).code = 200
                     /\ doctors' = VerifyDoctorRoute(u, d.id, s).doctors

\* C19: isVerified and verificationStatus of a Doctor are changed only by
\* verifyDoctor called by an admin; updateDoctorProfile, by the owning doctor
\* or an admin and with any body, leaves isVerified, verificationStatus,
\* registrationNumber and proofDocument unchanged; verifyDoctor called by a
\* non-admin changes nothing.
C19_VerificationFieldsFrame ==
    /\ []UpdateAndNonAdminVerifyFrame
    /\ [][VerificationChangedOnlyByAdmin]_vars

\* the pending doctor D2 has changed the specialization with a body that also
\* carried the four protected fields, which are as they were; the doctor's own
\* verifyDoctor is refused; an admin has rejected D1
C19_Witness ==
    /\ \E d \in doctors :
          /\ d.id = "D2" /\ d.specialization = "neurology"
          /\ d.verificationStatus = "pending" /\ d.isVerified = FALSE
          /\ d.registrationNumber = "R2" /\ d.proofDocument = "url2"
    /\ UpdateDoctorProfileRoute("ud2", "D2", UpdateValue).code = 200
    /\ Protected(UpdateDoctorProfileRoute("ua", "D2", UpdateValue).doctors)
         = Protected(doctors)
    /\ VerifyDoctorRoute("ud2", "D2", "approved").code = 403
    /\ \E d \in doctors :
          d.id = "D1" /\ d.verificationStatus = "rejected" /\ ~d.isVerified

\* the Patient profiles of a user
PatientProfilesOf(u) == {p \in patients : p.user = u}

\* C20: every user has at most one Patient profile, and in every reachable
\* state createPatientProfile by a user who already has a profile is answered
\* 409 and creates nothing, whatever the body.
C20_OnePatientProfilePerUser ==
    /\ \A u \in Users : Cardinality(PatientProfilesOf(u)) <= 1
    /\ \A u \in Users, b \in PatientBodies :
          (Role[u] = "patient" /\ PatientProfilesOf(u) # {})
          => CreatePatientProfileRoute(u, b) = ProfileError(409)

\* the third patient has created a profile (the gender stored normalised),
\* and a second attempt, like one of the first patient, is answered 409
C20_Witness ==
    /\ \E p \in patients : p.user = "up3" /\ p.id = "P3" /\ p.gender = "Female"
    /\ Cardinality(patients) = 3
    /\ CreatePatientProfileRoute("up3",
           PatientBody("1990-05-01", "male", "a", None)).code = 409
    /\ CreatePatientProfileRoute("up1",
           PatientBody("1990-05-01", "male", "a", None)).code = 409

\* C25: estimatedTime is fixed when the entry is created: no updateQueueStatus
\* (compaction included), no later joinQueue and no passing of time changes
\* the estimatedTime of an existing entry, so after a compaction an entry's
\* estimatedTime need not equal its join time + (position - 1) * 15.
C25_EstimatedTimeFrozen ==
    [][/\ Len(queue') >= Len(queue)
       /\ \A i \in 1..Len(queue) :
             queue'[i].estimatedTime = queue[i].estimatedTime]_vars

\* after a compaction a waiting entry carries an estimatedTime that no join
\* at its present position could have been given so far (a join at `now` or
\* earlier gives at most now + (position - 1) * 15)
C25_Witness ==
    \E i, j \in 1..Len(queue) :
        /\ queue[j].doctor = queue[i].doctor
        /\ queue[j].status = "completed"
        /\ queue[i].status = "waiting"
        /\ queue[i].estimatedTime
             > now + (queue[i].position - 1) * averageTimePerPatientMinutes

\* the patient's waiting and in-progress entries, of any doctor
ActiveOfPatient(patientId) ==
    {i \in 1..Len(queue) : /\ queue[i].patient = patientId
                           /\ queue[i].status \in ActiveQueueStatuses}

\* C26: after any sequence of joinQueue and updateQueueStatus a patient holds
\* at most one waiting or in-progress entry across all doctors, so the entry
\* getMyQueueStatus returns is the only one, and it returns the sentinel
\* (200, no entry) exactly when the patient has none.
C26_SingleActiveEntryPerPatient ==
    \A u \in Users :
        LET r == GetMyQueueStatusRoute(u)
            mine == ActiveOfPatient(PatientOf(u))
        IN PatientOf(u) # None
           => /\ Cardinality(mine) <= 1
              /\ r.code = 200
              /\ (r.id = 0) <=> (mine = {})
              /\ r.id # 0 => mine = {r.id}

\* C27: updateQueueStatus with `completed` is idempotent: applied to an entry
\* that is already completed it succeeds and leaves the status and position
\* of every entry as they were.
C27_CompletedIdempotent ==
    \A u \in Users, e \in 1..Len(queue) :
        LET r == UpdateQueueStatusRoute(u, e, "completed")
        IN (queue[e].status = "completed" /\ r.code = 200)
           => r.queue = queue

\* the status changes of a queue entry that move it forward
ForwardQueueChanges ==
    {<<"waiting", "in-progress">>, <<"waiting", "completed">>,
     <<"in-progress", "completed">>}

\* C29: in every reachable state, repeated completions of one entry
\* included, the position of every queue entry is an integer >= 1.
C29_PositionsAtLeastOne ==
    \A i \in 1..Len(queue) : queue[i].position \in Nat \ {0}

\* two waiting entries of one doctor that both joined at position 2
\* (estimatedTime 15) have both been decremented, one of them by the second
\* completion of the same entry, and stand at position 1
C29_Witness ==
    \E i, j, e \in 1..Len(queue) :
        /\ i # j
        /\ queue[e].status = "completed" /\ queue[e].position = 1
        /\ queue[i].doctor = queue[e].doctor
        /\ queue[j].doctor = queue[e].doctor
        /\ queue[i].status = "waiting" /\ queue[j].status = "waiting"
        /\ queue[i].position = 1 /\ queue[j].position = 1
        /\ queue[i].estimatedTime = averageTimePerPatientMinutes
        /\ queue[j].estimatedTime = averageTimePerPatientMinutes

\* C30: under createDoctorProfile, updateDoctorProfile and both verifyDoctor
\* handlers a Doctor document's isVerified is true exactly when its
\* verificationStatus is approved; a new profile starts as (false, pending);
\* and a status that is approved or rejected never returns to pending.
C30_VerifiedIffApproved ==
    /\ [](\A d \in doctors :
             /\ d.verificationStatus \in {"pending", "approved", "rejected"}
             /\ d.isVerified <=> (d.verificationStatus = "approved"))
    /\ [][\A n \in doctors' :
             /\ (\A d \in doctors : d.id # n.id)
                => (n.isVerified = FALSE /\ n.verificationStatus = "pending")
             /\ \A d \in doctors :
                   (d.id = n.id /\ d.verificationStatus # "pending")
                   => n.verificationStatus # "pending"]_vars

\* the profile created by ud3 (pending) has been approved and then rejected,
\* and the profile that was approved from the start has been rejected
C30_Witness ==
    /\ \E d \in doctors : /\ d.id = "D3" /\ d.user = "ud3"
                          /\ d.verificationStatus = "rejected"
                          /\ d.isVerified = FALSE
    /\ \E d \in doctors : /\ d.id = "D1"
                          /\ d.verificationStatus = "rejected"
                          /\ d.isVerified = FALSE
    /\ \E d \in doctors : /\ d.id = "D2"
                          /\ d.verificationStatus = "approved"
                          /\ d.isVerified = TRUE

\* ==================================================== Concurrent requests
\* A handler gives up control at every await: the storage steps of two
\* requests interleave.  A request between two of its storage steps is kept
\* in inflight with what it has read so far.
MaxRaceDocs == 2     \* documents created, or about to be, by racing requests

\* the requests in flight
InFlight == {r \in Slots : inflight[r] # Idle}

\* bookAppointment up to and including the conflict query: 0 to go on to
\* Appointment.create, else the status of the ApiError thrown (the Patient
\* and Doctor collections do not change while bookings race, so the three
\* reads are one step)
bookAppointmentCheck(u, b) ==
    IF b.doctorId = None \/ b.date = None \/ b.startTime = None
       \/ b.endTime = None
    THEN 400
    ELSE IF PatientOf(u) = None THEN 404
    ELSE IF ~DoctorExists(b.doctorId) THEN 404
    ELSE IF conflict(b.doctorId, b.date, b.startTime) THEN 409
    ELSE 0

\* Appointment.create as it would act under a unique index on the slot of
\* the active appointments: the second insert is refused
createAppointmentUniqueSlot(a, patientId, b) ==
    IF \E i \in 1..Len(a) : /\ a[i].doctor = b.doctorId
                            /\ a[i].date = ParseDate(b.date)
                            /\ a[i].startTime = b.startTime
                            /\ a[i].status \in {"pending", "confirmed"}
    THEN a
    ELSE Append(a, [patient |-> patientId, doctor |-> b.doctorId,
                    date |-> ParseDate(b.date), startTime |-> b.startTime,
                    endTime |-> b.endTime, status |-> "pending"])

\* Appointment.create({patient, doctor, slot, status: "pending"})
createAppointment(a, patientId, b) ==
    Append(a, [patient |-> patientId, doctor |-> b.doctorId,
               date |-> ParseDate(b.date), startTime |-> b.startTime,
               endTime |-> b.endTime, status |-> "pending"])

\* a booking request arrives and runs up to its conflict query: it is
\* answered with an error, or goes on to the create
BookCheckStep ==
    \E r \in Slots, u \in Callers, b \in HospitalBookingInputs :
        /\ inflight[r] = Idle
        /\ IF verifyRole({"patient"}, u) # 0 \/ bookAppointmentCheck(u, b) # 0
           THEN UNCHANGED inflight
           ELSE /\ Len(appts) + Cardinality(InFlight) < MaxRaceDocs
                /\ inflight' = [inflight EXCEPT ![r] =
                                   [op |-> "bookAppointment",
                                    patient |-> PatientOf(u), body |-> b]]
        /\ UNCHANGED <<patients, doctors, queue, appts, now>>

\* the request's Appointment.create lands and the response (201) is sent
BookCreateStep ==
    \E r \in Slots :
        /\ inflight[r].op = "bookAppointment"
        /\ appts' = createAppointment(appts, inflight[r].patient,
                                      inflight[r].body)
        /\ inflight' = [inflight EXCEPT ![r] = Idle]
        /\ UNCHANGED <<patients, doctors, queue, now>>

NextBookRace == BookCheckStep \/ BookCreateStep

\* bookAppointment requests served concurrently
SpecBookRace == Init /\ [][NextBookRace]_vars

\* C22: bookAppointment has a race window between its conflict check and
\* its create: a request that has passed the check creates its pending
\* appointment whatever has been stored since, so two requests for one
\* doctor, date and startTime that both pass the check both create one.
C22_BookingRaceWindow ==
    [][\A r \in Slots :
          (inflight[r].op = "bookAppointment" /\ inflight'[r] = Idle)
          => /\ Len(appts') = Len(appts) + 1
             /\ SubSeq(appts', 1, Len(appts)) = appts
             /\ appts'[Len(appts')].status = "pending"
             /\ appts'[Len(appts')].patient = inflight[r].patient
             /\ appts'[Len(appts')].doctor = inflight[r].body.doctorId
             /\ appts'[Len(appts')].date = ParseDate(inflight[r].body.date)
             /\ appts'[Len(appts')].startTime = inflight[r].body.startTime
    ]_vars

\* both requests have been answered and two pending appointments of
\* different patients hold the same doctor, date and startTime
C22_Witness ==
    /\ InFlight = {}
    /\ Len(appts) = 2
    /\ SameSlot(appts[1], appts[2])
    /\ appts[1].patient # appts[2].patient
    /\ appts[1].status = "pending" /\ appts[2].status = "pending"

\* joinQueue up to and including the existing-entry query: 0 to go on to
\* the position query, else the status of the ApiError thrown
joinQueueCheck(u, doctorId) ==
    IF doctorId = None THEN 400
    ELSE IF PatientOf(u) = None THEN 404
    ELSE IF ~DoctorExists(doctorId) THEN 404
    ELSE IF existingEntry(doctorId, PatientOf(u)) # 0 THEN 409
    ELSE 0

\* Queue.create with the position taken from the queue as it is when the
\* insert lands, not from the request's earlier read
createQueueEntryFreshPosition(q, doctorId, patientId, position, estimatedTime) ==
    Append(q, [doctor |-> doctorId, patient |-> patientId,
               position |-> nextPosition(doctorId),
               estimatedTime |-> estimatedTime, status |-> "waiting"])

\* Queue.create({doctor, patient, position: nextPosition, estimatedTime,
\* status: "waiting"})
createQueueEntry(q, doctorId, patientId, position, estimatedTime) ==
    Append(q, [doctor |-> doctorId, patient |-> patientId,
               position |-> position,
               estimatedTime |-> estimatedTime, status |-> "waiting"])

\* a join request arrives and runs up to its existing-entry query
JoinCheckStep ==
    \E r \in Slots, u \in Callers, d \in DoctorIdInputs :
        /\ inflight[r] = Idle
        /\ IF verifyRole({"patient"}, u) # 0 \/ joinQueueCheck(u, d) # 0
           THEN UNCHANGED inflight
           ELSE /\ Len(queue) + Cardinality(InFlight) < MaxRaceDocs
                /\ inflight' = [inflight EXCEPT ![r] =
                                   [op |-> "joinQueue", pc |-> "read",
                                    doctor |-> d, patient |-> PatientOf(u)]]
        /\ UNCHANGED <<patients, doctors, queue, appts, now>>

\* the request reads the last waiting position and computes nextPosition
\* and estimatedTime
JoinReadStep ==
    \E r \in Slots :
        /\ inflight[r].op = "joinQueue"
        /\ inflight[r].pc = "read"
        /\ inflight' = [inflight EXCEPT ![r] =
               [op |-> "joinQueue", pc |-> "create",
                doctor |-> inflight[r].doctor,
                patient |-> inflight[r].patient,
                position |-> nextPosition(inflight[r].doctor),
                estimatedTime |->
                    calculateEstimatedTime(inflight[r].doctor,
                                           nextPosition(inflight[r].doctor))]]
        /\ UNCHANGED <<patients, doctors, queue, appts, now>>

\* the request's Queue.create lands and the response (201) is sent
JoinCreateStep ==
    \E r \in Slots :
        /\ inflight[r].op = "joinQueue"
        /\ inflight[r].pc = "create"
        /\ queue' = createQueueEntry(queue, inflight[r].doctor,
                                     inflight[r].patient,
                                     inflight[r].position,
                                     inflight[r].estimatedTime)
        /\ inflight' = [inflight EXCEPT ![r] = Idle]
        /\ UNCHANGED <<patients, doctors, appts, now>>

NextJoinRace == JoinCheckStep \/ JoinReadStep \/ JoinCreateStep

\* joinQueue requests served concurrently
SpecJoinRace == Init /\ [][NextJoinRace]_vars

\* C23: joinQueue has a race window between its reads and its create: a
\* request that has passed the existing-entry check and read the last
\* waiting position creates its waiting entry at the position it read,
\* whatever has been stored since, so two requests can create entries with
\* the same position, and two requests of one patient can create two
\* non-completed entries for the same doctor and patient.
C23_JoinRaceWindow ==
    [][\A r \in Slots :
          (inflight[r].op = "joinQueue" /\ inflight'[r] = Idle)
          => /\ Len(queue') = Len(queue) + 1
             /\ SubSeq(queue', 1, Len(queue)) = queue
             /\ queue'[Len(queue')].status = "waiting"
             /\ queue'[Len(queue')].doctor = inflight[r].doctor
             /\ queue'[Len(queue')].patient = inflight[r].patient
             /\ queue'[Len(queue')].position = inflight[r].position
    ]_vars

\* both requests have been answered and the same patient holds two waiting
\* entries of the same doctor, both at the same position
C23_Witness ==
    /\ InFlight = {}
    /\ Len(queue) = 2
    /\ queue[1].doctor = queue[2].doctor
    /\ queue[1].patient = queue[2].patient
    /\ queue[1].position = queue[2].position
    /\ queue[1].status = "waiting" /\ queue[2].status = "waiting"

\* the indexes in s ordered by ascending position (entries at the same
\* position in natural order)
RECURSIVE SortByPosition(_)
SortByPosition(s) ==
    IF s = {} THEN <<>>
    ELSE LET lo == CHOOSE i \in s :
                     \A j \in s : \/ queue[i].position < queue[j].position
                                  \/ /\ queue[i].position = queue[j].position
                                     /\ i <= j
         IN <<lo>> \o SortByPosition(s \ {lo})

\* the getDoctorQueue handler: the doctor's waiting and in-progress entries
\* by ascending position
getDoctorQueue(doctorId) ==
    IF ~IsObjectId(doctorId) THEN ListOutcome(400, <<>>)
    ELSE ListOutcome(200,
             SortByPosition({i \in 1..Len(queue) :
                                /\ queue[i].doctor = doctorId
                                /\ queue[i].status \in ActiveQueueStatuses}))

\* GET /queue/doctor/:doctorId : verifyJWT, getDoctorQueue
GetDoctorQueueRoute(u, doctorId) ==
    IF u = None THEN ListOutcome(401, <<>>) ELSE getDoctorQueue(doctorId)

\* a read served in one storage step: the response is sent, nothing is
\* written
GetDoctorQueueStep ==
    \E u \in Callers, d \in DoctorParamIds :
        /\ GetDoctorQueueRoute(u, d).code \in {200, 400, 401}
        /\ UNCHANGED vars

\* an update request arrives and runs up to its transition guard, on the
\* entry as Queue.findById returned it
UpdateFindStep ==
    \E r \in Slots, u \in Callers, e \in 1..MaxRaceDocs,
       s \in QueueStatusInputs :
        /\ inflight[r] = Idle
        /\ IF UpdateQueueStatusRoute(u, e, s).code # 200
           THEN UNCHANGED inflight
           ELSE inflight' = [inflight EXCEPT ![r] =
                    [op |-> "updateQueueStatus", pc |-> "write",
                     entryId |-> e, newStatus |-> ToLower(s),
                     doctor |-> queue[e].doctor,
                     position |-> queue[e].position]]
        /\ UNCHANGED <<patients, doctors, queue, appts, now>>

\* Queue.findByIdAndUpdate(entryId, {$set: {status: newStatus}}); for
\* in-progress the response (200) follows
UpdateWriteStep ==
    \E r \in Slots :
        /\ inflight[r].op = "updateQueueStatus"
        /\ inflight[r].pc = "write"
        /\ queue' = [queue EXCEPT ![inflight[r].entryId].status =
                                      inflight[r].newStatus]
        /\ inflight' = [inflight EXCEPT ![r] =
               IF inflight[r].newStatus = "completed"
               THEN [inflight[r] EXCEPT !.pc = "compact"]
               ELSE Idle]
        /\ UNCHANGED <<patients, doctors, appts, now>>

\* Queue.updateMany({doctor, status: "waiting", position: {$gt:
\* queueEntry.position}}, {$inc: {position: -1}}), on the position and
\* doctor of the entry as it was found; then the response (200)
UpdateCompactStep ==
    \E r \in Slots :
        /\ inflight[r].op = "updateQueueStatus"
        /\ inflight[r].pc = "compact"
        /\ queue' = [i \in 1..Len(queue) |->
                        IF /\ queue[i].doctor = inflight[r].doctor
                           /\ queue[i].status = "waiting"
                           /\ queue[i].position > inflight[r].position
                        THEN [queue[i] EXCEPT !.position = @ - 1]
                        ELSE queue[i]]
        /\ inflight' = [inflight EXCEPT ![r] = Idle]
        /\ UNCHANGED <<patients, doctors, appts, now>>

\* a join served between the storage steps of the updates in flight (its
\* own queries are not interleaved here: SpecJoinRace does that)
CompactJoinQueueStep ==
    \E u \in Callers, d \in DoctorIdInputs :
        /\ Len(JoinQueueRoute(u, d).queue) <= MaxRaceDocs
        /\ queue' = JoinQueueRoute(u, d).queue
        /\ UNCHANGED <<patients, doctors, appts, now, inflight>>

NextCompactRace ==
    \/ CompactJoinQueueStep
    \/ UpdateFindStep \/ UpdateWriteStep \/ UpdateCompactStep
    \/ GetDoctorQueueStep

\* the queue routes served concurrently
SpecCompactRace == Init /\ [][NextCompactRace]_vars

\* C24: compaction is atomic with respect to reads of the doctor's queue:
\* in no state that a getDoctorQueue (or a joinQueue query) can be served
\* in has a completion been written while the waiting entries behind the
\* completed entry are still to be decremented.
C24_CompactionAtomic ==
    \A r \in Slots :
        (inflight[r].op = "updateQueueStatus" /\ inflight[r].pc = "compact")
        => LET list == getDoctorQueue(inflight[r].doctor).docs
           IN ~\E n \in 1..Len(list) :
                  /\ queue[list[n]].status = "waiting"
                  /\ queue[list[n]].position > inflight[r].position

\* C28: queue entries only move forward and `completed` is absorbing: no
\* step removes an entry, and a step that changes an entry's status changes
\* it from waiting to in-progress, from waiting to completed or from
\* in-progress to completed, never back.
C28_QueueStatusOnlyForward ==
    [][/\ Len(queue') >= Len(queue)
       /\ \A i \in 1..Len(queue) :
             \/ queue'[i].status = queue[i].status
             \/ <<queue[i].status, queue'[i].status>> \in ForwardQueueChanges
      ]_vars

====
